---------------------------- MODULE Spec2Model ----------------------------
(***************************************************************************)
(* Dyck paths, the boxes under a path and the acyclic orientations of the  *)
(* boxes (dyckpath.py, acyclic.py).                                        *)
(*                                                                         *)
(* A Python tuple is a TLA+ sequence: the entry path[i] of the source is   *)
(* path[i+1] here.  Boxes keep the source's 0-based row indices: the box   *)
(* (i, j) is <<i, j>>.  An orientation (n, ascents, descents) is the       *)
(* triple <<n, ascents, descents>>.                                        *)
(***************************************************************************)
EXTENDS Integers, Sequences, FiniteSets, TLC

VARIABLES
    pc,             \* which call of the run was made last
    gen_n,          \* all_dyck_paths: the argument n
    gen_primitive,  \* all_dyck_paths: the argument primitive
    yielded,        \* all_dyck_paths: the paths yielded so far, in order
    path,           \* all_orientations: the argument, {} or {path}
    result,         \* all_orientations: the returned set
    raised,         \* the exception the last call let escape, or "None"
    ao,             \* is_orientation: the argument
    ret,            \* is_orientation: "None" before the call, then "True"/"False"
    rebuilt,        \* is_orientation: its local `path` (line 130), {} or {path}
    _cache,         \* dyckpath._cache: path -> set of boxes
    boxes_arg,      \* boxes_under_path: the last argument, {} or {path}
    boxes_ret,      \* boxes_under_path: the last returned set
    calls           \* number of calls made in the run

vars == <<pc, gen_n, gen_primitive, yielded, path, result, raised, ao, ret,
          rebuilt, _cache, boxes_arg, boxes_ret, calls>>

---------------------------------------------------------------------------
(* Bounds of the model and constants of the program.                       *)

\* test_generation(max_n=6): the lengths the generator is tested on.
max_n == 6

\* Longest path handed to all_orientations and is_orientation.
MaxLen == 5

\* Arbitrary (possibly malformed) triples: n and the box indices range a
\* little beyond -MaxArbN .. MaxArbN, with at most MaxArbBoxes boxes.
MaxArbN == 2
MaxArbBoxes == 2

\* The cache run: keys of length up to MaxCacheLen, up to MaxCalls calls.
MaxCacheLen == 2
MaxCalls == 2

---------------------------------------------------------------------------
(* Helpers for Python's built-ins.                                         *)

\* range(start, stop) as a sequence.
range(start, stop) ==
    [k \in 1..(IF stop > start THEN stop - start ELSE 0) |-> start + k - 1]

\* sum(path)
RECURSIVE sum(_)
sum(s) == IF s = <<>> THEN 0 ELSE Head(s) + sum(Tail(s))

\* The concatenation of a sequence of sequences: what a nested for loop yields.
RECURSIVE chain(_)
chain(ss) == IF ss = <<>> THEN <<>> ELSE Head(ss) \o chain(Tail(ss))

\* set(seq)
elements(s) == {s[k] : k \in 1..Len(s)}

\* itertools.product(values, repeat=n), as a set of tuples.
RECURSIVE product(_, _)
product(values, n) ==
    IF n <= 0 THEN {<<>>}
    ELSE {<<h>> \o t : h \in values, t \in product(values, n - 1)}

\* s with x put in front of its entry at position k (at the end for
\* k = Len(s) + 1).
insert_at(s, k, x) == SubSeq(s, 1, k - 1) \o <<x>> \o SubSeq(s, k, Len(s))

\* itertools.permutations(range(n)): every ordering of the rows 0..n-1, as
\* a set of tuples; ordering[i] of the source is ordering[i+1].  The
\* orderings of n rows are those of n-1 rows with row n-1 put at each place.
RECURSIVE permutations(_)
permutations(n) ==
    IF n <= 0 THEN {<<>>}
    ELSE {insert_at(t, k, n - 1) : t \in permutations(n - 1), k \in 1..n}

---------------------------------------------------------------------------
(* dyckpath.py                                                             *)

\* is_dyck_path, on a tuple of integers (the two isinstance tests pass).
is_dyck_path(p) ==
    /\ \A k \in 1..Len(p) : p[k] >= 0
    /\ \A i \in 0..(Len(p) - 2) : p[i+1] < p[i+2] + 2
    /\ (Len(p) = 0 \/ p[Len(p)] = 0)

\* path.index(0): the first index holding 0; -1 stands for ValueError.
index0(p) ==
    IF \E k \in 1..Len(p) : p[k] = 0
    THEN (CHOOSE k \in 1..Len(p) : p[k] = 0 /\ \A m \in 1..(k-1) : p[m] # 0) - 1
    ELSE -1

\* is_primitive, on a path that holds a 0 (every Dyck path does).
is_primitive(p) == Len(p) = 0 \/ index0(p) = Len(p) - 1

\* range(primitive, tail[0]+2): True counts as 1, False as 0.
HeadRangeShort(primitive, tail) == range(IF primitive THEN 1 ELSE 0, tail[1] + 1)
HeadRangeFromOne(primitive, tail) == range(1, tail[1] + 2)
HeadRangeUnflagged(primitive, tail) == range(0, tail[1] + 2)
HeadRange(primitive, tail) == range(IF primitive THEN 1 ELSE 0, tail[1] + 2)

\* all_dyck_paths(n, primitive): the paths in the order the generator
\* yields them.
RECURSIVE all_dyck_paths(_, _)
all_dyck_paths(n, primitive) ==
    IF n = 0 THEN << <<>> >>
    ELSE IF n = 1 THEN << <<0>> >>
    ELSE IF n >= 2 THEN
        LET tails == all_dyck_paths(n - 1, primitive)
            heads(tail) == HeadRange(primitive, tail)
        IN  chain([t \in 1..Len(tails) |->
                    [h \in 1..Len(heads(tails[t])) |->
                        <<heads(tails[t])[h]>> \o tails[t]]])
    ELSE <<>>

---------------------------------------------------------------------------
(* The generator run: all_dyck_paths(n, primitive) consumed to the end, as *)
(* test_generation does for n = 0 .. max_n with both flags.                *)

InitGen ==
    /\ pc = "generating"
    /\ gen_n \in 0..max_n
    /\ gen_primitive \in BOOLEAN
    /\ yielded = <<>>
    /\ path = {} /\ result = {} /\ raised = "None"
    /\ ao = <<0, {}, {}>> /\ ret = "None" /\ rebuilt = {}
    /\ _cache = <<>> /\ boxes_arg = {} /\ boxes_ret = {}
    /\ calls = 0

\* next() on the generator: the next path, or StopIteration.
GenNext ==
    /\ pc = "generating"
    /\ LET all == all_dyck_paths(gen_n, gen_primitive) IN
        IF Len(yielded) < Len(all)
        THEN /\ yielded' = Append(yielded, all[Len(yielded) + 1])
             /\ pc' = pc
        ELSE /\ yielded' = yielded
             /\ pc' = "exhausted"
    /\ UNCHANGED <<gen_n, gen_primitive, path, result, raised, ao, ret,
                   rebuilt, _cache, boxes_arg, boxes_ret, calls>>

NextGen == GenNext

SpecGen == InitGen /\ [][NextGen]_vars

\* filter(is_dyck_path, it.product(range(n), repeat=n))
filtered(n) == {p \in product(0..(n-1), n) : is_dyck_path(p)}

\* filter(is_primitive, filtered)
primitive_filtered(n) == {p \in filtered(n) : is_primitive(p)}

\* The doctest of all_dyck_paths (line 88): the Catalan numbers.
catalan == <<1, 1, 2, 5, 14, 42, 132>>

NoRepeat(s) == \A a, b \in 1..Len(s) : s[a] = s[b] => a = b


\* C1: once all_dyck_paths(n) is exhausted, for n in 0..max_n, what it
\* yielded is exactly the set of tuples of product(range(n), repeat=n) that
\* pass is_dyck_path, and at no point has it yielded a tuple twice.
C1_YieldsExactlyTheDyckPaths ==
    ~gen_primitive =>
        /\ NoRepeat(yielded)
        /\ pc = "exhausted" => elements(yielded) = filtered(gen_n)

C1_Witness ==
    /\ pc = "exhausted" /\ ~gen_primitive /\ gen_n = max_n
    /\ <<1, 2, 2, 1, 1, 0>> \in elements(yielded)

\* C2: once all_dyck_paths(n, primitive=True) is exhausted, what it yielded
\* is exactly the set of Dyck paths of length n that pass is_primitive, and
\* at no point has it yielded a path twice.
C2_PrimitiveYieldsExactlyThePrimitivePaths ==
    gen_primitive =>
        /\ NoRepeat(yielded)
        /\ pc = "exhausted" => elements(yielded) = primitive_filtered(gen_n)

C2_Witness ==
    /\ pc = "exhausted" /\ gen_primitive /\ gen_n = max_n
    /\ <<1, 2, 3, 2, 1, 0>> \in elements(yielded)

\* C4: the number of paths all_dyck_paths(n) yields before it is exhausted
\* is the n-th Catalan number, for n in 0..max_n.
C4_CountIsCatalan ==
    (pc = "exhausted" /\ ~gen_primitive) => Len(yielded) = catalan[gen_n + 1]

C4_Witness ==
    pc = "exhausted" /\ ~gen_primitive /\ gen_n = max_n /\ Len(yielded) = 132

---------------------------------------------------------------------------
(* dyckpath.py: the boxes under a path and their memoization.              *)

\* _boxes_under_path: {(i, j) for i, k in enumerate(path)
\*                            for j in range(i+1, i+1+k)}
_boxes_under_path_short(p) ==
    UNION {{<<i, j>> : j \in elements(range(i + 1, i + p[i+1]))} :
           i \in 0..(Len(p) - 1)}
_boxes_under_path(p) ==
    UNION {{<<i, j>> : j \in elements(range(i + 1, i + 1 + p[i+1]))} :
           i \in 0..(Len(p) - 1)}

\* boxes_under_path called with the cache holding c: what it returns and the
\* cache it leaves.
boxes_under_path_evicting(c, p) ==
    IF p \in DOMAIN c
    THEN [result |-> c[p], cache |-> c]
    ELSE LET r == _boxes_under_path(p) IN [result |-> r, cache |-> (p :> r)]
boxes_under_path(c, p) ==
    IF p \in DOMAIN c
    THEN [result |-> c[p], cache |-> c]
    ELSE LET r == _boxes_under_path(p) IN [result |-> r, cache |-> (p :> r) @@ c]

---------------------------------------------------------------------------
(* acyclic.py                                                              *)

\* The triple one ordering gives (lines 41-48): a box (i, j) is an ascent
\* when ordering[i] < ordering[j], a descent otherwise.
orientation_no_descents(n, boxes, ordering) ==
    <<n, {b \in boxes : ordering[b[1] + 1] < ordering[b[2] + 1]}, {}>>
orientation(n, boxes, ordering) ==
    <<n,
      {b \in boxes : ordering[b[1] + 1] < ordering[b[2] + 1]},
      {b \in boxes : ~(ordering[b[1] + 1] < ordering[b[2] + 1])}>>

\* all_orientations called with the cache holding c.  boxes_under_path is
\* called in every round of the loop, and there is at least one round; the
\* first call fills the cache.  ordering[j] raises IndexError for a box
\* that reaches beyond the last row (no Dyck path has one).
all_orientations(c, p) ==
    LET n == Len(p)
        call == boxes_under_path(c, p)
        boxes == call.result
    IN  IF \E b \in boxes : b[1] >= n \/ b[2] >= n
        THEN [raised |-> "IndexError", result |-> {}, cache |-> call.cache,
              boxes |-> boxes]
        ELSE [raised |-> "None",
              result |-> {orientation(n, boxes, ordering) :
                            ordering \in permutations(n)},
              cache |-> call.cache,
              boxes |-> boxes]

\* len([0]*n): a negative n gives the empty list.
list_len(n) == IF n > 0 THEN n ELSE 0

\* Whether path[i] exists in a list of length len: Python counts a negative
\* index from the end.
index_ok(i, len) == -len <= i /\ i < len
list_index(i, len) == IF i < 0 THEN i + len ELSE i

\* Lines 124-130: the path is_orientation rebuilds; {} when an index raises
\* IndexError (caught on line 128), else {path}.
rebuild_path_by_column(n, ascents, descents) ==
    LET len == list_len(n)
        count(boxes, k) ==
            Cardinality({b \in boxes : list_index(b[2], len) = k})
    IN  IF \E b \in ascents \cup descents : ~index_ok(b[2], len)
        THEN {}
        ELSE {[k \in 1..len |-> count(ascents, k - 1) + count(descents, k - 1)]}
rebuild_path(n, ascents, descents) ==
    LET len == list_len(n)
        count(boxes, k) ==
            Cardinality({b \in boxes : list_index(b[1], len) = k})
    IN  IF \E b \in ascents \cup descents : ~index_ok(b[1], len)
        THEN {}
        ELSE {[k \in 1..len |-> count(ascents, k - 1) + count(descents, k - 1)]}

\* Line 134: ascents.union(descents) == boxes_under_path(path)
exhaustive_by_count(ascents, descents, boxes) ==
    Cardinality(ascents \cup descents) = Cardinality(boxes)
exhaustive(ascents, descents, boxes) == (ascents \cup descents) = boxes

\* Lines 137-145: some i < j < k of range(n) forms a 3-cycle.
has_3_cycle_one_way(n, ascents, descents) ==
    \E i, j, k \in 0..(n - 1) :
        /\ i < j /\ j < k
        /\ <<i, j>> \in ascents /\ <<j, k>> \in ascents /\ <<i, k>> \in descents
has_3_cycle(n, ascents, descents) ==
    \E i, j, k \in 0..(n - 1) :
        /\ i < j /\ j < k
        /\ \/ (<<i, j>> \in ascents /\ <<j, k>> \in ascents /\ <<i, k>> \in descents)
           \/ (<<i, j>> \in descents /\ <<j, k>> \in descents /\ <<i, k>> \in ascents)

\* is_orientation called on a tuple (n, ascents, descents) of an int and two
\* frozensets of pairs of ints (lines 116-121 pass), with the cache holding
\* c: what it returns, its local path, and its call of boxes_under_path if
\* it gets that far.
is_orientation(c, a) ==
    LET n == a[1]
        ascents == a[2]
        descents == a[3]
        p == rebuild_path(n, ascents, descents)
        no_call(r) == [ret |-> r, rebuilt |-> p, cache |-> c,
                       boxes_arg |-> {}, boxes_ret |-> {}]
    IN  IF p = {} THEN no_call(FALSE)
        ELSE LET the_path == CHOOSE q \in p : TRUE IN
             IF ~is_dyck_path(the_path) THEN no_call(FALSE)
             ELSE IF ascents \cap descents # {} THEN no_call(FALSE)
             ELSE LET call == boxes_under_path(c, the_path)
                      called(r) == [ret |-> r, rebuilt |-> p,
                                    cache |-> call.cache,
                                    boxes_arg |-> p,
                                    boxes_ret |-> call.result]
                  IN  IF ~exhaustive(ascents, descents, call.result)
                      THEN called(FALSE)
                      ELSE IF has_3_cycle(n, ascents, descents)
                      THEN called(FALSE)
                      ELSE called(TRUE)

bool_str(b) == IF b THEN "True" ELSE "False"

---------------------------------------------------------------------------
(* The enumeration run: all_orientations(path) on a valid Dyck path, then  *)
(* is_orientation on one of the triples it returned (the doctest of line   *)
(* 31) or on some split of the boxes under the path.                       *)

\* The valid Dyck paths of length up to len.
dyck_paths_up_to(len) == UNION {filtered(n) : n \in 0..len}

\* Every way to split the boxes under p into ascents and descents: the
\* triples that differ from an orientation of p only in their cycles.
splits(p) ==
    LET boxes == _boxes_under_path(p)
    IN  {<<Len(p), A, boxes \ A>> : A \in SUBSET boxes}

InitEnum ==
    /\ pc = "start"
    /\ path \in {{p} : p \in dyck_paths_up_to(MaxLen)}
    /\ gen_n = 0 /\ gen_primitive = FALSE /\ yielded = <<>>
    /\ result = {} /\ raised = "None"
    /\ ao = <<0, {}, {}>> /\ ret = "None" /\ rebuilt = {}
    /\ _cache = <<>> /\ boxes_arg = {} /\ boxes_ret = {}
    /\ calls = 0

\* result = all_orientations(path)
Enumerate ==
    /\ pc = "start"
    /\ LET p == CHOOSE q \in path : TRUE
           call == all_orientations(_cache, p)
       IN  /\ result' = call.result
           /\ raised' = call.raised
           /\ _cache' = call.cache
           /\ boxes_arg' = path
           /\ boxes_ret' = call.boxes
    /\ pc' = "enumerated"
    /\ calls' = calls + 1
    /\ UNCHANGED <<gen_n, gen_primitive, yielded, path, ao, ret, rebuilt>>

\* is_orientation(a) for a triple a of result
Check ==
    /\ pc = "enumerated"
    /\ \E a \in result :
        LET call == is_orientation(_cache, a) IN
        /\ ao' = a
        /\ ret' = bool_str(call.ret)
        /\ rebuilt' = call.rebuilt
        /\ _cache' = call.cache
        /\ boxes_arg' = IF call.boxes_arg = {} THEN boxes_arg ELSE call.boxes_arg
        /\ boxes_ret' = IF call.boxes_arg = {} THEN boxes_ret ELSE call.boxes_ret
    /\ pc' = "checked"
    /\ calls' = calls + 1
    /\ UNCHANGED <<gen_n, gen_primitive, yielded, path, result, raised>>

\* is_orientation(a) for a split a of the boxes under path, once
\* all_orientations(path) has returned
CheckSplit ==
    /\ pc = "enumerated"
    /\ \E p \in path : \E a \in splits(p) :
        LET call == is_orientation(_cache, a) IN
        /\ ao' = a
        /\ ret' = bool_str(call.ret)
        /\ rebuilt' = call.rebuilt
        /\ _cache' = call.cache
        /\ boxes_arg' = IF call.boxes_arg = {} THEN boxes_arg ELSE call.boxes_arg
        /\ boxes_ret' = IF call.boxes_arg = {} THEN boxes_ret ELSE call.boxes_ret
    /\ pc' = "validated"
    /\ calls' = calls + 1
    /\ UNCHANGED <<gen_n, gen_primitive, yielded, path, result, raised>>

NextEnum == Enumerate \/ Check \/ CheckSplit

SpecEnum == InitEnum /\ [][NextEnum]_vars

\* C3: every triple all_orientations(p) returns for a valid Dyck path p
\* passes is_orientation, and is (len(p), ascents, descents) with disjoint
\* ascents and descents whose union is the set of boxes under p.
C3_OrientationsPassIsOrientation ==
    pc = "checked" =>
        /\ ret = "True"
        /\ \A p \in path :
            /\ ao[1] = Len(p)
            /\ ao[2] \cap ao[3] = {}
            /\ ao[2] \cup ao[3] = _boxes_under_path(p)

C3_Witness ==
    /\ pc = "checked" /\ path = {<<1, 2, 1, 0>>}
    /\ ao[2] # {} /\ ao[3] # {} /\ ret = "True"

\* C5: the path is_orientation rebuilds from a triple of all_orientations(p)
\* is p.
C5_RebuiltPathIsThePath ==
    pc = "checked" => rebuilt = path

C5_Witness ==
    pc = "checked" /\ path = {<<2, 2, 1, 0>>} /\ rebuilt = {<<2, 2, 1, 0>>}

\* C6: for a valid Dyck path p, boxes_under_path(p) has sum(p) boxes, and
\* each box (i, j) has 0 <= i < j <= len(p) - 1.
C6_BoxCountIsSum ==
    \A p \in boxes_arg :
        is_dyck_path(p) =>
            /\ Cardinality(boxes_ret) = sum(p)
            /\ \A b \in boxes_ret : 0 <= b[1] /\ b[1] < b[2] /\ b[2] <= Len(p) - 1

C6_Witness ==
    /\ pc = "enumerated" /\ boxes_arg = {<<1, 3, 2, 1, 0>>}
    /\ Cardinality(boxes_ret) = 7

\* C9: checking 3-cycles suffices: a split of the boxes under a Dyck path
\* that is_orientation accepts is an element of all_orientations(p), p the
\* path is_orientation rebuilt from the split.
C9_AcceptedComesFromAnOrdering ==
    (pc = "validated" /\ ret = "True") => (rebuilt = path /\ ao \in result)

\* An accepted split of the boxes under (2, 2, 1, 0), which hold two
\* triangles: the one the ordering of the rows 0 < 2 < 3 < 1 gives.
C9_Witness ==
    /\ pc = "validated" /\ ret = "True"
    /\ path = {<<2, 2, 1, 0>>}
    /\ ao = <<4, {<<0, 1>>, <<0, 2>>, <<2, 3>>}, {<<1, 2>>, <<1, 3>>}>>

---------------------------------------------------------------------------
(* The validation run: is_orientation(ao) on a triple of an int and two    *)
(* frozensets of pairs of ints.                                            *)

\* The subsets of S with at most k elements.
RECURSIVE subsets_up_to(_, _)
subsets_up_to(S, k) ==
    IF k <= 0 THEN {{}}
    ELSE LET smaller == subsets_up_to(S, k - 1)
         IN  smaller \cup {A \cup {x} : A \in smaller, x \in S}

abs(n) == IF n < 0 THEN -n ELSE n

\* Arbitrary triples: n in -1..MaxArbN, at most MaxArbBoxes boxes in all,
\* row indices from one below the most negative index the rebuilt list
\* accepts up to one beyond its last index, column indices from -1.
arbitrary_pairs(n) == ((-(abs(n) + 1))..abs(n)) \X ((-1)..abs(n))

exactly(S, k) == {A \in subsets_up_to(S, k) : Cardinality(A) = k}

InitCheck ==
    /\ pc = "start"
    /\ \/ \E n \in (-1)..MaxArbN : \E k \in 0..MaxArbBoxes :
            \E A \in exactly(arbitrary_pairs(n), k) :
                \E D \in subsets_up_to(arbitrary_pairs(n), MaxArbBoxes - k) :
                    ao = <<n, A, D>>
       \/ \E p \in dyck_paths_up_to(MaxLen) : ao \in splits(p)
    /\ gen_n = 0 /\ gen_primitive = FALSE /\ yielded = <<>>
    /\ path = {} /\ result = {} /\ raised = "None"
    /\ ret = "None" /\ rebuilt = {}
    /\ _cache = <<>> /\ boxes_arg = {} /\ boxes_ret = {}
    /\ calls = 0

\* ret = is_orientation(ao)
Validate ==
    /\ pc = "start"
    /\ LET call == is_orientation(_cache, ao) IN
        /\ ret' = bool_str(call.ret)
        /\ rebuilt' = call.rebuilt
        /\ _cache' = call.cache
        /\ boxes_arg' = call.boxes_arg
        /\ boxes_ret' = call.boxes_ret
    /\ pc' = "validated"
    /\ calls' = calls + 1
    /\ UNCHANGED <<gen_n, gen_primitive, yielded, path, result, raised, ao>>

NextCheck == Validate

SpecCheck == InitCheck /\ [][NextCheck]_vars

\* Some box of the triple has a row or column index outside 0..n-1.
index_outside(a) ==
    \E b \in a[2] \cup a[3] :
        b[1] \notin 0..(a[1] - 1) \/ b[2] \notin 0..(a[1] - 1)

\* C7: is_orientation returns False, and lets no exception escape, on a
\* triple with a box index outside 0..n-1, be the index too large or
\* negative.
C7_IndexOutsideIsRejected ==
    (pc # "start" /\ index_outside(ao)) => (ret = "False" /\ raised = "None")

\* A negative row index that the rebuilt list accepts, on a triple whose
\* rebuilt path is a Dyck path.
C7_Witness ==
    /\ pc = "validated" /\ ao = <<2, {<<-2, 1>>}, {}>>
    /\ rebuilt = {<<1, 0>>} /\ ret = "False"

\* C8: if is_orientation((n, ascents, descents)) returns True then ascents
\* and descents are disjoint and their union is the set of boxes under some
\* Dyck path of length exactly n.
C8_AcceptedIsPartitionOfADyckPathOfLengthN ==
    (pc # "start" /\ ret = "True") =>
        \E q \in filtered(ao[1]) :
            /\ Len(q) = ao[1]
            /\ ao[2] \cap ao[3] = {}
            /\ ao[2] \cup ao[3] = _boxes_under_path(q)

---------------------------------------------------------------------------
(* The cache run: up to MaxCalls calls of boxes_under_path,                *)
(* all_orientations and is_orientation, in any order, in one process: the  *)
(* cache starts empty (line 104) and outlives every call.                  *)

\* The tuples the calls are made on: it.product(range(n), repeat=n) for n
\* up to MaxCacheLen, Dyck paths or not.
cache_keys == UNION {product(0..(n - 1), n) : n \in 0..MaxCacheLen}

\* The triples is_orientation is called on: every split of the boxes under
\* a Dyck path among the keys, and for every key, Dyck path or not, the
\* triple with all its boxes as ascents (as the doctest of line 66).
cache_inputs ==
    {<<Len(p), _boxes_under_path(p), {}>> : p \in cache_keys}
        \cup UNION {splits(p) : p \in dyck_paths_up_to(MaxCacheLen)}

InitCache ==
    /\ pc = "start"
    /\ gen_n = 0 /\ gen_primitive = FALSE /\ yielded = <<>>
    /\ path = {} /\ result = {} /\ raised = "None"
    /\ ao = <<0, {}, {}>> /\ ret = "None" /\ rebuilt = {}
    /\ _cache = <<>> /\ boxes_arg = {} /\ boxes_ret = {}
    /\ calls = 0

\* boxes_under_path(p)
CallBoxesUnderPath ==
    /\ calls < MaxCalls
    /\ \E p \in cache_keys :
        LET call == boxes_under_path(_cache, p) IN
        /\ _cache' = call.cache
        /\ boxes_arg' = {p}
        /\ boxes_ret' = call.result
    /\ pc' = "boxes_under_path"
    /\ calls' = calls + 1
    /\ UNCHANGED <<gen_n, gen_primitive, yielded, path, result, raised, ao,
                   ret, rebuilt>>

\* all_orientations(p)
CallAllOrientations ==
    /\ calls < MaxCalls
    /\ \E p \in cache_keys :
        LET call == all_orientations(_cache, p) IN
        /\ path' = {p}
        /\ result' = call.result
        /\ raised' = call.raised
        /\ _cache' = call.cache
        /\ boxes_arg' = {p}
        /\ boxes_ret' = call.boxes
    /\ pc' = "all_orientations"
    /\ calls' = calls + 1
    /\ UNCHANGED <<gen_n, gen_primitive, yielded, ao, ret, rebuilt>>

\* is_orientation(a)
CallIsOrientation ==
    /\ calls < MaxCalls
    /\ \E a \in cache_inputs :
        LET call == is_orientation(_cache, a) IN
        /\ ao' = a
        /\ ret' = bool_str(call.ret)
        /\ rebuilt' = call.rebuilt
        /\ _cache' = call.cache
        /\ boxes_arg' = IF call.boxes_arg = {} THEN boxes_arg ELSE call.boxes_arg
        /\ boxes_ret' = IF call.boxes_arg = {} THEN boxes_ret ELSE call.boxes_ret
    /\ pc' = "is_orientation"
    /\ calls' = calls + 1
    /\ UNCHANGED <<gen_n, gen_primitive, yielded, path, result, raised>>

NextCache == CallBoxesUnderPath \/ CallAllOrientations \/ CallIsOrientation

SpecCache == InitCache /\ [][NextCache]_vars

\* {(i, j) : 0 <= i < len(p), i+1 <= j <= i+p[i]}
box_set(p) ==
    {b \in (0..(Len(p) - 1)) \X (1..(Len(p) + sum(p))) :
        b[1] + 1 <= b[2] /\ b[2] <= b[1] + p[b[1] + 1]}

\* C10: every entry of the cache maps its path p to box_set(p), the last
\* call of boxes_under_path returned box_set of its argument whatever calls
\* came before, and no step removes or changes an entry of the cache.
C10_CacheIsExactAndNeverEvicts ==
    /\ [](/\ \A p \in DOMAIN _cache : _cache[p] = box_set(p)
          /\ \A p \in boxes_arg : boxes_ret = box_set(p))
    /\ [][\A p \in DOMAIN _cache :
            p \in DOMAIN _cache' /\ _cache'[p] = _cache[p]]_vars

\* boxes_under_path((1, 0)) served from the entry that an earlier
\* all_orientations((1, 0)) stored.
C10_Witness ==
    /\ calls = 2 /\ pc = "boxes_under_path"
    /\ path = {<<1, 0>>} /\ DOMAIN _cache = {<<1, 0>>}
    /\ boxes_arg = {<<1, 0>>} /\ boxes_ret = {<<0, 1>>}

=============================================================================
